---- MODULE Spec2Model ----
(***************************************************************************)
(* Model of the summarize API of jp-politics (src/api/summarize.ts): the   *)
(* request handler with its cache-first pipeline, and the cache key it     *)
(* builds.                                                                 *)
(*                                                                         *)
(* Strings are sequences of UTF-16 code units (naturals), so that sort,    *)
(* join, startsWith and concatenation are computed as JavaScript computes  *)
(* them.  The JavaScript value undefined is the one-element sequence       *)
(* <<-1>>, which is no string.                                             *)
(***************************************************************************)
EXTENDS Integers, Sequences, FiniteSets, TLC

VARIABLES
    cache,      \* the KV store: a set of entries [k, v, ex]
    pc,         \* per handler invocation: where it is suspended
    req,        \* per invocation: the request and the environment it reads
    scraped,    \* per invocation: policyText of each party, or Pending
    sumP,       \* per invocation: the promise of getAnalysisFromAI
    freeP,      \* per invocation: the promise of getFreeformAnswerFromAI
    result,     \* per invocation: resultData once merged
    resp,       \* per invocation: the response sent, or NoResp
    calls,      \* per invocation: the external calls it has issued
    hit,        \* per invocation: what kv.get returned
    started,    \* number of requests received so far
    prior,      \* per invocation: the fresh answer an identical request got before
    fresh,      \* history: fresh 200 answers still covered by their cache entry
    ka, kb,     \* two requests whose cache keys are compared
    kkeys,      \* their keys once computed
    ppc,        \* a handler of part_001: where its invocation is suspended
    preq,       \* its request and the environment it reads
    preply,     \* the reply of the model API to its call, once there
    presp,      \* the response it sent, or NoResp
    pstarted,   \* number of requests the handlers of part_001 received
    pinput,     \* the policy text its prompt hands to the model
    cparties,   \* one-button client: parties (policyUrl, analysisResult)
    cloading,   \* its loading flag
    cerror,     \* its error message
    ccacheStatus, \* its cacheStatus
    cinflight,  \* its invocations of analyzePolicies suspended at an await
    cclicks,    \* number of clicks on its button so far
    lparties,   \* latest client: parties (policyUrl, analysisResult)
    lloading,   \* its loading flags (themes, freeform)
    lerror,     \* its error message
    lcacheStatus, \* its cacheStatus
    lquestion,  \* its freeformQuestion
    lanswer,    \* its freeformAnswer
    linflight,  \* its invocations suspended at an await
    lclicks,    \* number of clicks on its two request buttons so far
    lreset      \* history: reset ran and no request button was clicked since

vars == <<cache, pc, req, scraped, sumP, freeP, result, resp, calls, hit,
          started, prior, fresh, ka, kb, kkeys, ppc, preq, preply, presp,
          pstarted, pinput, cparties, cloading, cerror, ccacheStatus,
          cinflight, cclicks, lparties, lloading, lerror, lcacheStatus,
          lquestion, lanswer, linflight, lclicks, lreset>>

hvars == <<cache, pc, req, scraped, sumP, freeP, result, resp, calls, hit,
           started, prior, fresh>>

kvars == <<ka, kb, kkeys>>

pvars == <<ppc, preq, preply, presp, pstarted, pinput>>

cvars == <<cparties, cloading, cerror, ccacheStatus, cinflight, cclicks>>

lvars == <<lparties, lloading, lerror, lcacheStatus, lquestion, lanswer,
           linflight, lclicks, lreset>>

-----------------------------------------------------------------------------
(* JavaScript values and strings *)

Undefined == <<-1>>

EmptyStr == <<>>

\* ToBoolean of a string-or-undefined value: undefined and "" are falsy.
Truthy(s) == s # Undefined /\ s # EmptyStr

\* String.prototype.startsWith
StartsWith(s, p) == Len(s) >= Len(p) /\ SubSeq(s, 1, Len(p)) = p

\* Comparison of two strings by code units, as the default sort compares them.
RECURSIVE StrLess(_, _)
StrLess(a, b) ==
    IF b = <<>> THEN FALSE
    ELSE IF a = <<>> THEN TRUE
    ELSE IF Head(a) # Head(b) THEN Head(a) < Head(b)
    ELSE StrLess(Tail(a), Tail(b))

\* The default comparator of Array.prototype.sort: undefined sorts last.
SortBefore(x, y) ==
    IF x = Undefined THEN FALSE
    ELSE IF y = Undefined THEN TRUE
    ELSE StrLess(x, y)

RECURSIVE InsertSorted(_, _)
InsertSorted(x, s) ==
    IF s = <<>> THEN <<x>>
    ELSE IF SortBefore(x, Head(s)) THEN <<x>> \o s
    ELSE <<Head(s)>> \o InsertSorted(x, Tail(s))

\* Array.prototype.sort() without a comparator.
RECURSIVE JsSort(_)
JsSort(s) == IF s = <<>> THEN <<>> ELSE InsertSorted(Head(s), JsSort(Tail(s)))

\* Array.prototype.join: undefined elements are rendered as "".
RECURSIVE Join(_, _)
Join(s, sep) ==
    IF s = <<>> THEN <<>>
    ELSE LET h == IF Head(s) = Undefined THEN <<>> ELSE Head(s)
         IN  IF Len(s) = 1 THEN h ELSE h \o sep \o Join(Tail(s), sep)

-----------------------------------------------------------------------------
(* The cache key (handler, line 49) *)

Sep == <<124>>          \* '|'

Delim == <<58, 58>>     \* '::'

PolicyUrls(parties) == [i \in 1..Len(parties) |-> parties[i].policyUrl]

CacheKeyUnsorted(parties, freeformQuestion) ==
    Join(PolicyUrls(parties), Sep)
        \o Delim \o (IF Truthy(freeformQuestion) THEN freeformQuestion ELSE <<>>)

CacheKeyNoQuestion(parties, freeformQuestion) ==
    Join(JsSort(PolicyUrls(parties)), Sep) \o Delim

RECURSIVE Dedup(_)
Dedup(s) ==
    IF s = <<>> THEN <<>>
    ELSE IF \E i \in 2..Len(s) : s[i] = Head(s) THEN Dedup(Tail(s))
    ELSE <<Head(s)>> \o Dedup(Tail(s))

CacheKeyDedup(parties, freeformQuestion) ==
    Join(Dedup(JsSort(PolicyUrls(parties))), Sep)
        \o Delim \o (IF Truthy(freeformQuestion) THEN freeformQuestion ELSE <<>>)

CacheKey(parties, freeformQuestion) ==
    Join(JsSort(PolicyUrls(parties)), Sep)
        \o Delim \o (IF Truthy(freeformQuestion) THEN freeformQuestion ELSE <<>>)

-----------------------------------------------------------------------------
(* Requests *)

MaxParties == 2

MaxRequests == 2

Slots == {1, 2}

\* policyUrl of a party: empty, or a URL ("a").
HandlerUrls == {EmptyStr, <<97>>}

\* The party at position i has id i; name is read only by the prompts.
PartyLists ==
    UNION {{[i \in 1..n |-> [id |-> i, policyUrl |-> f[i]]] :
               f \in [1..n -> HandlerUrls]} : n \in 0..MaxParties}

Theme(k) == [key |-> k, label |-> k]

ThemeLists == {<<>>, <<Theme("economic"), Theme("childcare")>>}

\* freeformQuestion: omitted, or "q".
Questions == {Undefined, <<113>>}

\* A request with the environment the handler reads while serving it.
\* hasParties/hasThemes: whether the body has the field at all.
Requests ==
    {[method |-> m, hasParties |-> hp, parties |-> ps, hasThemes |-> ht,
      themes |-> ts, freeformQuestion |-> q, apiKey |-> ak] :
        m \in {"POST", "GET"}, hp \in BOOLEAN, ps \in PartyLists,
        ht \in BOOLEAN, ts \in ThemeLists, q \in Questions, ak \in BOOLEAN}

WellFormed(R) ==
    /\ ~R.hasParties => R.parties = <<>>
    /\ ~R.hasThemes => R.themes = <<>>

NoRequest ==
    [method |-> "none", hasParties |-> FALSE, parties |-> <<>>,
     hasThemes |-> FALSE, themes |-> <<>>, freeformQuestion |-> Undefined,
     apiKey |-> FALSE]

-----------------------------------------------------------------------------
(* Texts and results *)

\* The marker '（このURLからの情報取得に失敗しました' that failure texts begin with.
FailMarker == <<70>>

\* "（URLが指定されていません）"
NoUrlText == <<78>>

\* Text of a page after cleaning: empty or not.
PageTexts == {EmptyStr, <<84>>}

\* `（このURLからの情報取得に失敗しました: ${error}）`
FailText == FailMarker \o <<69>>

Pending == <<-2>>

\* "情報取得失敗"
FailureSentinel == "JOHO_SHUTOKU_SHIPPAI"

Summary == "summary"

NoAnswer == [present |-> FALSE, question |-> EmptyStr, answer |-> ""]

ThemeKeys(themes) == {themes[i].key : i \in 1..Len(themes)}

Ids(ps) == {ps[i].id : i \in 1..Len(ps)}

AllIds == 1..MaxParties

\* Error messages
MsgMethod == "Method Not Allowed"

MsgInvalid == "invalid request"

MsgNoKey == "API key not configured"

MsgNoSource == "no policy could be retrieved from any URL"

MsgSumFallback == "AI theme summary error"

MsgFreeFallback == "AI free answer error"

MsgModel == "message of the model API"

MsgStore == "error of the KV store"

NoResp == [status |-> 0]

ErrorResp(st, msg) == [status |-> st, error |-> msg]

OkRespFresh(data, fc) ==
    [status |-> 200, analysis |-> data.analysis,
     freeformAnswer |-> data.freeformAnswer, fromCache |-> FALSE]

OkResp(data, fc) ==
    [status |-> 200, analysis |-> data.analysis,
     freeformAnswer |-> data.freeformAnswer, fromCache |-> fc]

NoCalls == [serial |-> 0, get |-> 0, fetch |-> <<>>, sum |-> 0, free |-> 0,
            set |-> 0, aiInput |-> <<>>]

NoData == [analysis |-> <<>>, freeformAnswer |-> NoAnswer]

NoHit == [found |-> FALSE, failed |-> FALSE, v |-> NoData, by |-> 0]

NoPromise == [state |-> "none"]

-----------------------------------------------------------------------------
(* Extraction outcomes and their partition (handler, lines 59-64) *)

\* scrapedPolicies: each party with the policyText scrapeTextFromUrl returned.
ScrapedPolicies(parties, texts) ==
    [i \in 1..Len(parties) |->
        [id |-> parties[i].id, policyUrl |-> parties[i].policyUrl,
         policyText |-> texts[i]]]

IsSuccessful(p) == Truthy(p.policyText) /\ ~StartsWith(p.policyText, FailMarker)

IsFailedExact(p) == p.policyText = FailMarker

IsFailed(p) == StartsWith(p.policyText, FailMarker)

SuccessfulScrapes(sp) == SelectSeq(sp, IsSuccessful)

FailedScrapes(sp) == SelectSeq(sp, IsFailed)

ScrapeStartAlwaysFetches(party) == Pending

\* What scrapeTextFromUrl returns without fetching, or Pending while it fetches.
ScrapeStart(party) ==
    IF ~Truthy(party.policyUrl) THEN NoUrlText ELSE Pending

\* Results of the fetch of a URL: the cleaned page text, or the failure text.
FetchResults == PageTexts \cup {FailText}

SetTextFailureSpreads(texts, i, t) ==
    [j \in DOMAIN texts |-> IF j = i \/ t = FailText THEN t ELSE texts[j]]

\* The scrape of party i settles with text t: element i of the array that
\* Promise.all collects, the other elements being left as they are.
SetText(texts, i, t) == [texts EXCEPT ![i] = t]

AnySettled(texts) == \E j \in 1..Len(texts) : texts[j] # Pending

\* Promise.all of the scrapes is fulfilled once every scrape has settled.
AllSettled(texts) == \A j \in 1..Len(texts) : texts[j] # Pending

-----------------------------------------------------------------------------
(* Merging the failure placeholders (handler, lines 76-82) *)

ErrorResult(themes) == [k \in ThemeKeys(themes) |-> FailureSentinel]

AssignKey(a, id, v) == [x \in (DOMAIN a) \cup {id} |-> IF x = id THEN v ELSE a[x]]

RECURSIVE MergeFailedOnly(_, _, _)
MergeFailedOnly(analysis, failed, themes) ==
    IF failed = <<>> THEN <<>>
    ELSE AssignKey(MergeFailedOnly(analysis, Tail(failed), themes),
                   Head(failed).id, ErrorResult(themes))

RECURSIVE MergeFailed(_, _, _)
MergeFailed(analysis, failed, themes) ==
    IF failed = <<>> THEN analysis
    ELSE MergeFailed(AssignKey(analysis, Head(failed).id, ErrorResult(themes)),
                     Tail(failed), themes)

-----------------------------------------------------------------------------
(* What the model API may return *)

\* A parsed analysis: an object over some party ids, with a summary per theme.
AiAnalyses(successful, themes) ==
    {[id \in D |-> [k \in ThemeKeys(themes) |-> Summary]] :
        D \in {Ids(successful), AllIds, {}}}

\* The message of the SyntaxError that JSON.parse throws.
MsgSyntax == "Unexpected token in JSON"

NoMessage == ""

\* Replies of the model API to the request of getAnalysisFromAI: the status is
\* a success or not, data.candidates is there or not, data.error.message or
\* none, and the first candidate's text is JSON (then `parsed`) or not.
SumReplies(successful, themes) ==
    {[ok |-> TRUE, candidates |-> TRUE, error |-> NoMessage, parseable |-> TRUE,
      parsed |-> a] : a \in AiAnalyses(successful, themes)}
    \cup {[ok |-> TRUE, candidates |-> TRUE, error |-> NoMessage,
           parseable |-> FALSE, parsed |-> <<>>]}
    \cup {[ok |-> FALSE, candidates |-> FALSE, error |-> m, parseable |-> FALSE,
           parsed |-> <<>>] : m \in {MsgModel, NoMessage}}
    \cup {[ok |-> TRUE, candidates |-> FALSE, error |-> NoMessage,
           parseable |-> FALSE, parsed |-> <<>>]}

GetAnalysisFromAIRaw(reply) ==
    IF reply.ok /\ reply.candidates
    THEN IF reply.parseable
         THEN [state |-> "fulfilled", value |-> reply.parsed]
         ELSE [state |-> "rejected", msg |-> MsgSyntax, reply |-> reply]
    ELSE [state |-> "rejected", msg |-> reply.error, reply |-> reply]

\* Lines 135-141: how the promise of getAnalysisFromAI settles on a reply.  A
\* rejection keeps the reply it came from; the handler reads its msg only.
GetAnalysisFromAI(reply) ==
    IF reply.ok /\ reply.candidates
    THEN IF reply.parseable
         THEN [state |-> "fulfilled", value |-> reply.parsed]
         ELSE [state |-> "rejected", msg |-> MsgSyntax, reply |-> reply]
    ELSE [state |-> "rejected",
          msg |-> IF reply.error # NoMessage THEN reply.error ELSE MsgSumFallback,
          reply |-> reply]

SumOutcomes(successful, themes) ==
    {GetAnalysisFromAI(reply) : reply \in SumReplies(successful, themes)}

FreeOutcomes(question) ==
    {[state |-> "fulfilled",
      value |-> [present |-> TRUE, question |-> question, answer |-> "answer"]]}
    \cup {[state |-> "rejected", msg |-> m] : m \in {MsgFreeFallback}}

PendingPromise == [state |-> "pending"]

\* Promise.resolve(undefined)
ResolvedUndefined == [state |-> "fulfilled", value |-> NoAnswer]

-----------------------------------------------------------------------------
(* The KV store *)

Ttl == 86400

KeyOf(R) == CacheKey(R.parties, R.freeformQuestion)

\* A store that never finds an entry.
KvGetMiss(key) == {}

\* kv.get(key): the entries stored under the key (at most one).
KvGet(key) == {e \in cache : e.k = key}

KvSetDropped(key, value, ex, by) == cache

\* A store that keeps the analysis of the entry it overwrites.
KvSetMixed(key, value, ex, by) ==
    {e \in cache : e.k # key}
    \cup {[k |-> key, ex |-> ex, by |-> by,
           v |-> IF \E e \in cache : e.k = key
                 THEN [value EXCEPT !.analysis =
                          (CHOOSE e \in cache : e.k = key).v.analysis]
                 ELSE value]}

KvSetNoExpiry(key, value, ex, by) ==
    {e \in cache : e.k # key} \cup {[k |-> key, v |-> value, ex |-> 0, by |-> by]}

\* kv.set(key, value, {ex}): the store after the write.  `by` records the
\* writing invocation; the handler never reads it.
KvSet(key, value, ex, by) ==
    {e \in cache : e.k # key} \cup {[k |-> key, v |-> value, ex |-> ex, by |-> by]}

-----------------------------------------------------------------------------
(* The two handlers of src/unnamed/part_001: the text summarizer (lines    *)
(* 3-62) and the analysis handler over texts the client sends (lines       *)
(* 77-153).  Each makes one model call and answers from its reply.         *)

MaxProxyRequests == 3

\* '要約するテキストがありません。'
MsgNoText == "no text to summarize"

\* 'AI APIからの応答エラーです。'
MsgReplyFallback == "AI reply error"

\* The message shown for an overloaded model.
MsgBusy == "the model is busy, try again later"

\* 'サーバーでエラーが発生しました。'
MsgServer == "server error"

\* A message of the model API that contains 'overloaded'.
MsgOverloaded == "The model is overloaded."

\* errorMessage.includes('overloaded')
IncludesOverloaded(m) == m \in {MsgOverloaded}

\* Response.ok: the status is in the range 200-299.
Ok(status) == status \in 200..299

SummaryRequests ==
    [method : {"POST", "GET"}, hasText : BOOLEAN, apiKey : BOOLEAN]

\* The cap of text.substring(0, 15000).
MaxChars == 15000

\* A text of n characters c.
Run(c, n) == [char |-> c, len |-> n]

NoText == Run(0, 0)

\* policyText of the party a client sends: short, at the cap, over the cap.
RawTexts == {Run(120, n) : n \in {100, MaxChars, MaxChars + 1}}

AnalysisRequests ==
    [method : {"POST", "GET"}, hasParties : BOOLEAN, hasThemes : BOOLEAN,
     apiKey : BOOLEAN, policyText : RawTexts]

\* part_001 line 106: the policy text that the prompt of the analysis handler
\* carries is the party's policyText as the client sent it.
PolicyInPrompt(R) == R.policyText

NoReply == [json |-> FALSE, status |-> 0, candidates |-> FALSE,
            error |-> NoMessage, parseable |-> FALSE]

\* Replies of the model API: no JSON body at all (or the fetch rejected), or a
\* body with or without candidates, under a success or a failure status; the
\* candidate's text is JSON or not.
ProxyReplies ==
    {[json |-> FALSE, status |-> 503, candidates |-> FALSE, error |-> NoMessage,
      parseable |-> FALSE]}
    \cup {[json |-> TRUE, status |-> s, candidates |-> TRUE, error |-> NoMessage,
           parseable |-> p] : s \in {200, 503}, p \in BOOLEAN}
    \cup {[json |-> TRUE, status |-> s, candidates |-> FALSE, error |-> m,
           parseable |-> FALSE] :
              s \in {200, 503}, m \in {NoMessage, MsgModel, MsgOverloaded}}

InitProxy ==
    /\ ppc = "idle"
    /\ preq = [handler |-> "none"]
    /\ preply = NoReply
    /\ presp = NoResp
    /\ pstarted = 0
    /\ pinput = NoText

\* part_001 lines 7-19: the early returns of the text summarizer.
SummaryEarly(R) ==
    IF R.method # "POST" THEN ErrorResp(405, MsgMethod)
    ELSE IF ~R.hasText THEN ErrorResp(400, MsgNoText)
    ELSE IF ~R.apiKey THEN ErrorResp(500, MsgNoKey)
    ELSE NoResp

\* part_001 lines 38-61: the response of the text summarizer to a reply.
SummaryResponse(reply) ==
    IF ~reply.json THEN ErrorResp(500, MsgServer)
    ELSE IF Ok(reply.status) /\ reply.candidates
    THEN [status |-> 200, summary |-> Summary]
    ELSE ErrorResp(reply.status,
                   IF IncludesOverloaded(reply.error) THEN MsgBusy
                   ELSE IF reply.error # NoMessage THEN reply.error
                   ELSE MsgReplyFallback)

\* part_001 lines 82-97: the early returns of the analysis handler.
AnalysisEarly(R) ==
    IF R.method # "POST" THEN ErrorResp(405, MsgMethod)
    ELSE IF ~R.hasParties \/ ~R.hasThemes THEN ErrorResp(400, MsgInvalid)
    ELSE IF ~R.apiKey THEN ErrorResp(500, MsgNoKey)
    ELSE NoResp

\* part_001 lines 139-152: the response of the analysis handler to a reply.
AnalysisResponse(reply) ==
    IF ~reply.json THEN ErrorResp(500, MsgServer)
    ELSE IF Ok(reply.status) /\ reply.candidates
    THEN IF reply.parseable
         THEN [status |-> 200, analysis |-> Summary]
         ELSE ErrorResp(500, MsgServer)
    ELSE ErrorResp(reply.status,
                   IF reply.error # NoMessage THEN reply.error
                   ELSE MsgReplyFallback)

\* A request arrives at one of the two handlers; it is answered at once or
\* the model call is issued.
ProxyReceive(h, R, early, policy) ==
    /\ ppc \in {"idle", "done"}
    /\ pstarted < MaxProxyRequests
    /\ pstarted' = pstarted + 1
    /\ preq' = [handler |-> h, request |-> R]
    /\ preply' = NoReply
    /\ presp' = early
    /\ ppc' = IF early.status = 0 THEN "calling" ELSE "done"
    /\ pinput' = IF early.status = 0 THEN policy ELSE NoText
    /\ UNCHANGED <<hvars, kvars, cvars, lvars>>

\* The text of the text summarizer is not modelled.
SummaryReceive(R) == ProxyReceive("summary", R, SummaryEarly(R), NoText)

AnalysisReceive(R) ==
    ProxyReceive("analysis", R, AnalysisEarly(R), PolicyInPrompt(R))

\* The model call of the text summarizer settles.
SummaryReturn(reply) ==
    /\ ppc = "calling" /\ preq.handler = "summary"
    /\ preply' = reply
    /\ presp' = SummaryResponse(reply)
    /\ ppc' = "done"
    /\ UNCHANGED <<preq, pstarted, pinput, hvars, kvars, cvars, lvars>>

\* The model call of the analysis handler settles.
AnalysisReturn(reply) ==
    /\ ppc = "calling" /\ preq.handler = "analysis"
    /\ preply' = reply
    /\ presp' = AnalysisResponse(reply)
    /\ ppc' = "done"
    /\ UNCHANGED <<preq, pstarted, pinput, hvars, kvars, cvars, lvars>>

NextProxy ==
    \/ \E R \in SummaryRequests : SummaryReceive(R)
    \/ \E reply \in ProxyReplies : SummaryReturn(reply)
    \/ \E R \in AnalysisRequests : AnalysisReceive(R)
    \/ \E reply \in ProxyReplies : AnalysisReturn(reply)

-----------------------------------------------------------------------------
(* The client with one button (src/unnamed/part_003, template lines 1-66,  *)
(* script lines 68-151): analyzePolicies, one action per stretch of code   *)
(* between two awaits, and the user's edits and clicks.                    *)

MaxClientParties == 2

MaxClicks == 3

ClientIds == 1..MaxClientParties

\* What a user can leave in a URL field: nothing, a space, "a".
ClientUrls == {EmptyStr, <<32>>, <<97>>}

IsSpace(c) == c = 32

RECURSIVE TrimStart(_)
TrimStart(s) == IF s # <<>> /\ IsSpace(Head(s)) THEN TrimStart(Tail(s)) ELSE s

RECURSIVE TrimEnd(_)
TrimEnd(s) ==
    IF s # <<>> /\ IsSpace(s[Len(s)]) THEN TrimEnd(SubSeq(s, 1, Len(s) - 1)) ELSE s

\* String.prototype.trim
Trim(s) == TrimEnd(TrimStart(s))

\* The filter of line 86: p.policyUrl && p.policyUrl.trim() !== ''
HasUrl(p) == Truthy(p.policyUrl) /\ Trim(p.policyUrl) # EmptyStr

\* Line 86: the ids of partiesWithUrl.
PartiesWithUrl(ps) == {i \in DOMAIN ps : HasUrl(ps[i])}

\* analysisResult: {} or the summaries of one party.
NoResult == <<>>

SomeResult == [k \in {"economic"} |-> "s"]

\* Messages shown in the error box.
MsgNeedUrl == "at least one URL is needed"

MsgNetwork == "Failed to fetch"

MsgNotJson == "SyntaxError"

MsgNoAnalysis == "TypeError"

MsgStatus == "server error (Status)"

\* What fetch('/api/summarize') can resolve with: a 2xx response whose body
\* is not JSON, is JSON without analysis, or is JSON with the analysis of
\* some parties; or a response that is not ok, with a text or an empty body.
ClientReplies ==
    {[ok |-> TRUE, json |-> FALSE, hasAnalysis |-> FALSE, analysis |-> <<>>,
      fromCache |-> FALSE, text |-> ""]}
    \cup {[ok |-> TRUE, json |-> TRUE, hasAnalysis |-> FALSE, analysis |-> <<>>,
           fromCache |-> FALSE, text |-> ""]}
    \cup {[ok |-> TRUE, json |-> TRUE, hasAnalysis |-> TRUE, analysis |-> a,
           fromCache |-> fc, text |-> ""] :
             a \in UNION {[ids -> {SomeResult}] : ids \in SUBSET ClientIds},
             fc \in BOOLEAN}
    \cup {[ok |-> FALSE, json |-> FALSE, hasAnalysis |-> FALSE, analysis |-> <<>>,
           fromCache |-> FALSE, text |-> t] : t \in {"", "e"}}

NoClientReply ==
    [ok |-> FALSE, json |-> FALSE, hasAnalysis |-> FALSE, analysis |-> <<>>,
     fromCache |-> FALSE, text |-> ""]

InitClient ==
    /\ cparties = [i \in ClientIds |-> [policyUrl |-> EmptyStr, analysisResult |-> NoResult]]
    /\ cloading = FALSE
    /\ cerror = ""
    /\ ccacheStatus = "null"
    /\ cinflight = {}
    /\ cclicks = 0

\* Line 28: the button takes clicks unless :disabled="loading".
ButtonAlwaysEnabled == TRUE

ButtonEnabled == ~cloading

\* Lines 20-25: v-model="party.policyUrl".
EditUrl(i, u) ==
    /\ cparties[i].policyUrl # u
    /\ cparties' = [cparties EXCEPT ![i].policyUrl = u]
    /\ UNCHANGED <<cloading, cerror, ccacheStatus, cinflight, cclicks, hvars, kvars,
                   pvars, lvars>>

\* Lines 86-109: a click on the button runs analyzePolicies up to its first
\* await: the early return of lines 87-90, or the flags and the fetch.
AnalyzePolicies ==
    /\ ButtonEnabled
    /\ cclicks < MaxClicks
    /\ cclicks' = cclicks + 1
    /\ LET partiesWithUrl == PartiesWithUrl(cparties)
       IN  IF partiesWithUrl = {}
           THEN /\ cerror' = MsgNeedUrl
                /\ UNCHANGED <<cparties, cloading, ccacheStatus, cinflight>>
           ELSE /\ cloading' = TRUE
                /\ cerror' = ""
                /\ ccacheStatus' = "null"
                /\ cparties' = [i \in ClientIds |->
                                   [cparties[i] EXCEPT !.analysisResult = NoResult]]
                /\ cinflight' = cinflight \cup
                      {[n |-> cclicks + 1, at |-> "fetch", reply |-> NoClientReply,
                        parties |-> [i \in partiesWithUrl |-> cparties[i].policyUrl]]}
    /\ UNCHANGED <<hvars, kvars, pvars, lvars>>

\* Lines 130-136: catch and finally of the invocation f.
ClientFails(f, msg) ==
    /\ cerror' = msg
    /\ cloading' = FALSE
    /\ cinflight' = cinflight \ {f}

\* Line 97 returns: fetch rejects (a network exception), or resolves with a
\* response, whose body lines 112 and 121 then await.
ClientFetchReturn(f, rp, rejected) ==
    /\ f \in cinflight /\ f.at = "fetch"
    /\ IF rejected
       THEN /\ ClientFails(f, MsgNetwork)
            /\ UNCHANGED <<cparties, ccacheStatus>>
       ELSE /\ cinflight' = (cinflight \ {f}) \cup
                   {[f EXCEPT !.at = IF rp.ok THEN "json" ELSE "text", !.reply = rp]}
            /\ UNCHANGED <<cparties, cloading, cerror, ccacheStatus>>
    /\ UNCHANGED <<cclicks, hvars, kvars, pvars, lvars>>

\* Lines 112-135: response.text() or response.json() returns.  Of a response
\* that is not ok, the text, or the status when there is none, becomes the
\* message (the throw of line 116 is caught at line 117).  Of an ok response,
\* the analysis is merged into the parties; a body that is not JSON, or has
\* no analysis, throws.
ClientBodyReturn(f) ==
    /\ f \in cinflight /\ f.at \in {"text", "json"}
    /\ LET rp == f.reply
       IN  IF f.at = "text"
           THEN /\ ClientFails(f, IF rp.text # "" THEN rp.text ELSE MsgStatus)
                /\ UNCHANGED <<cparties, ccacheStatus>>
           ELSE IF ~rp.json
           THEN /\ ClientFails(f, MsgNotJson)
                /\ UNCHANGED <<cparties, ccacheStatus>>
           ELSE IF ~rp.hasAnalysis
           THEN /\ ClientFails(f, MsgNoAnalysis)
                /\ ccacheStatus' = IF rp.fromCache THEN "true" ELSE "false"
                /\ UNCHANGED cparties
           ELSE /\ ccacheStatus' = IF rp.fromCache THEN "true" ELSE "false"
                /\ cparties' = [i \in ClientIds |->
                                   IF i \in DOMAIN rp.analysis
                                   THEN [cparties[i] EXCEPT !.analysisResult = rp.analysis[i]]
                                   ELSE cparties[i]]
                /\ cloading' = FALSE
                /\ cinflight' = cinflight \ {f}
                /\ UNCHANGED cerror
    /\ UNCHANGED <<cclicks, hvars, kvars, pvars, lvars>>

NextClient ==
    \/ \E i \in ClientIds, u \in ClientUrls : EditUrl(i, u)
    \/ AnalyzePolicies
    \/ \E f \in cinflight, rp \in ClientReplies, rejected \in BOOLEAN :
          ClientFetchReturn(f, rp, rejected)
    \/ \E f \in cinflight : ClientBodyReturn(f)

-----------------------------------------------------------------------------
(* The latest client (src/src/App.vue, template lines 169-268, script      *)
(* lines 270-415): analyzeThemes, askFreeformQuestion and resetAnalysis.   *)

\* freeformQuestion as the user leaves it: blank, or "q".
ClientQuestions == {EmptyStr, <<113>>}

MsgNeedQuestion == "a question is needed"

MsgComm == "communication error"

MsgAnalyzeFailed == "analysis failed"

MsgAnswerFailed == "answer failed"

\* What fetch can resolve with: a body that is not JSON; an ok JSON body with
\* or without analysis and freeformAnswer; a JSON error body with or without
\* an error text.
LatestReplies ==
    {[ok |-> o, json |-> FALSE, hasAnalysis |-> FALSE, analysis |-> <<>>,
      hasAnswer |-> FALSE, fromCache |-> FALSE, error |-> ""] : o \in BOOLEAN}
    \cup {[ok |-> TRUE, json |-> TRUE, hasAnalysis |-> FALSE, analysis |-> <<>>,
           hasAnswer |-> FALSE, fromCache |-> FALSE, error |-> ""]}
    \cup {[ok |-> TRUE, json |-> TRUE, hasAnalysis |-> TRUE, analysis |-> a,
           hasAnswer |-> ha, fromCache |-> fc, error |-> ""] :
             a \in UNION {[ids -> {SomeResult}] : ids \in SUBSET ClientIds},
             ha \in BOOLEAN, fc \in BOOLEAN}
    \cup {[ok |-> FALSE, json |-> TRUE, hasAnalysis |-> FALSE, analysis |-> <<>>,
           hasAnswer |-> FALSE, fromCache |-> FALSE, error |-> t] : t \in {"", "e"}}

NoLatestReply ==
    [ok |-> FALSE, json |-> FALSE, hasAnalysis |-> FALSE, analysis |-> <<>>,
     hasAnswer |-> FALSE, fromCache |-> FALSE, error |-> ""]

\* Lines 402-409, with nothing saved: the initial parties, nothing analysed.
InitLatest ==
    /\ lparties = [i \in ClientIds |-> [policyUrl |-> EmptyStr, analysisResult |-> NoResult]]
    /\ lloading = [themes |-> FALSE, freeform |-> FALSE]
    /\ lerror = ""
    /\ lcacheStatus = "null"
    /\ lquestion = EmptyStr
    /\ lanswer = "null"
    /\ linflight = {}
    /\ lclicks = 0
    /\ lreset = FALSE

\* Line 291: isAnalyzed
IsAnalyzed == \E i \in ClientIds : lparties[i].analysisResult # NoResult

\* Lines 369-371 of resetAnalysis, and line 306 of analyzeThemes.
ClearResults(ps) == [i \in ClientIds |-> [ps[i] EXCEPT !.analysisResult = NoResult]]

\* Lines 379-385: updateAnalysisResults
UpdateAnalysisResults(ps, analysisData) ==
    [i \in ClientIds |->
        IF i \in DOMAIN analysisData
        THEN [ps[i] EXCEPT !.analysisResult = analysisData[i]]
        ELSE ps[i]]

\* Lines 190-196: the URL field of a party and its clear button.
LatestEditUrl(i, u) ==
    /\ lparties[i].policyUrl # u
    /\ lparties' = [lparties EXCEPT ![i].policyUrl = u]
    /\ UNCHANGED <<lloading, lerror, lcacheStatus, lquestion, lanswer, linflight,
                   lclicks, lreset, hvars, kvars, pvars, cvars>>

\* Lines 243-247: v-model="freeformQuestion", shown when isAnalyzed.
EditQuestion(q) ==
    /\ IsAnalyzed
    /\ lquestion # q
    /\ lquestion' = q
    /\ UNCHANGED <<lparties, lloading, lerror, lcacheStatus, lanswer, linflight,
                   lclicks, lreset, hvars, kvars, pvars, cvars>>

\* Lines 205 and 294-316: a click on the button runs analyzeThemes up to its
\* first await.
AnalyzeThemes ==
    /\ ~lloading.themes
    /\ lclicks < MaxClicks
    /\ lclicks' = lclicks + 1
    /\ lreset' = FALSE
    /\ IF PartiesWithUrl(lparties) = {}
       THEN /\ lerror' = MsgNeedUrl
            /\ UNCHANGED <<lparties, lloading, lcacheStatus, lanswer, linflight>>
       ELSE /\ lloading' = [lloading EXCEPT !.themes = TRUE]
            /\ lerror' = ""
            /\ lcacheStatus' = "null"
            /\ lanswer' = "null"
            /\ lparties' = ClearResults(lparties)
            /\ linflight' = linflight \cup
                  {[n |-> lclicks + 1, kind |-> "themes", at |-> "fetch",
                    reply |-> NoLatestReply]}
    /\ UNCHANGED <<lquestion, hvars, kvars, pvars, cvars>>

\* Lines 249 and 331-351: a click on the question button, shown when
\* isAnalyzed, runs askFreeformQuestion up to its first await.
AskFreeformQuestion ==
    /\ IsAnalyzed
    /\ ~lloading.freeform
    /\ lclicks < MaxClicks
    /\ lclicks' = lclicks + 1
    /\ lreset' = FALSE
    /\ IF Trim(lquestion) = EmptyStr
       THEN /\ lerror' = MsgNeedQuestion
            /\ UNCHANGED <<lloading, lanswer, linflight>>
       ELSE /\ lloading' = [lloading EXCEPT !.freeform = TRUE]
            /\ lerror' = ""
            /\ lanswer' = "null"
            /\ linflight' = linflight \cup
                  {[n |-> lclicks + 1, kind |-> "freeform", at |-> "fetch",
                    reply |-> NoLatestReply]}
    /\ UNCHANGED <<lparties, lcacheStatus, lquestion, hvars, kvars, pvars, cvars>>

\* Lines 209 and 368-376: a click on the reset button, shown when isAnalyzed.
ResetAnalysis ==
    /\ IsAnalyzed
    /\ lparties' = ClearResults(lparties)
    /\ lcacheStatus' = "null"
    /\ lanswer' = "null"
    /\ lerror' = ""
    /\ lreset' = TRUE
    /\ UNCHANGED <<lloading, lquestion, linflight, lclicks, hvars, kvars, pvars, cvars>>

\* Lines 324-328 and 361-365: catch and finally of the invocation f.
LatestFails(f, msg) ==
    /\ lerror' = msg
    /\ lloading' = [lloading EXCEPT ![f.kind] = FALSE]
    /\ linflight' = linflight \ {f}

\* Lines 309 and 343 return: fetch rejects, or resolves with a response whose
\* body lines 317 and 352 then await.
LatestFetchReturn(f, rp, rejected) ==
    /\ f \in linflight /\ f.at = "fetch"
    /\ IF rejected
       THEN LatestFails(f, MsgComm) /\ UNCHANGED <<lparties, lcacheStatus, lanswer>>
       ELSE /\ linflight' = (linflight \ {f}) \cup {[f EXCEPT !.at = "json", !.reply = rp]}
            /\ UNCHANGED <<lparties, lloading, lerror, lcacheStatus, lanswer>>
    /\ UNCHANGED <<lquestion, lclicks, lreset, hvars, kvars, pvars, cvars>>

\* Lines 317-328 and 352-365: response.json() returns, and the rest of the
\* function runs.
LatestJsonReturn(f) ==
    /\ f \in linflight /\ f.at = "json"
    /\ LET rp == f.reply
       IN  IF ~rp.json
           THEN LatestFails(f, MsgComm) /\ UNCHANGED <<lparties, lcacheStatus, lanswer>>
           ELSE IF ~rp.ok
           THEN /\ LatestFails(f, IF rp.error # "" THEN rp.error
                                  ELSE IF f.kind = "themes" THEN MsgAnalyzeFailed
                                  ELSE MsgAnswerFailed)
                /\ UNCHANGED <<lparties, lcacheStatus, lanswer>>
           ELSE IF f.kind = "themes" /\ ~rp.hasAnalysis
           THEN LatestFails(f, MsgComm) /\ UNCHANGED <<lparties, lcacheStatus, lanswer>>
           ELSE /\ lparties' = IF f.kind = "themes"
                               THEN UpdateAnalysisResults(lparties, rp.analysis)
                               ELSE lparties
                /\ lanswer' = IF f.kind = "freeform" /\ rp.hasAnswer
                              THEN "answer" ELSE lanswer
                /\ lcacheStatus' = IF rp.fromCache THEN "true" ELSE "false"
                /\ lloading' = [lloading EXCEPT ![f.kind] = FALSE]
                /\ linflight' = linflight \ {f}
                /\ UNCHANGED lerror
    /\ UNCHANGED <<lquestion, lclicks, lreset, hvars, kvars, pvars, cvars>>

NextLatest ==
    \/ \E i \in ClientIds, u \in ClientUrls : LatestEditUrl(i, u)
    \/ \E q \in ClientQuestions : EditQuestion(q)
    \/ AnalyzeThemes
    \/ AskFreeformQuestion
    \/ ResetAnalysis
    \/ \E f \in linflight, rp \in LatestReplies, rejected \in BOOLEAN :
          LatestFetchReturn(f, rp, rejected)
    \/ \E f \in linflight : LatestJsonReturn(f)

-----------------------------------------------------------------------------
(* The handler (src/api/summarize.ts, lines 28-94), one action per stretch *)
(* of code between two awaits                                              *)

InitHandler ==
    /\ cache = {}
    /\ pc = [r \in Slots |-> "idle"]
    /\ req = [r \in Slots |-> NoRequest]
    /\ scraped = [r \in Slots |-> <<>>]
    /\ sumP = [r \in Slots |-> NoPromise]
    /\ freeP = [r \in Slots |-> NoPromise]
    /\ result = [r \in Slots |-> NoData]
    /\ resp = [r \in Slots |-> NoResp]
    /\ calls = [r \in Slots |-> NoCalls]
    /\ hit = [r \in Slots |-> NoHit]
    /\ started = 0
    /\ prior = [r \in Slots |-> {}]
    /\ fresh = {}

Init ==
    /\ InitHandler
    /\ ka = NoRequest
    /\ kb = NoRequest
    /\ kkeys = <<>>
    /\ InitProxy
    /\ InitClient
    /\ InitLatest

EarlyResponseNoKeyCheck(R) ==
    IF R.method # "POST" THEN ErrorResp(405, MsgMethod)
    ELSE IF ~R.hasParties \/ ~R.hasThemes THEN ErrorResp(400, MsgInvalid)
    ELSE NoResp

EarlyResponseKeyFirst(R) ==
    IF R.method # "POST" THEN ErrorResp(405, MsgMethod)
    ELSE IF ~R.apiKey THEN ErrorResp(500, MsgNoKey)
    ELSE IF ~R.hasParties \/ ~R.hasThemes THEN ErrorResp(400, MsgInvalid)
    ELSE NoResp

EarlyResponseAnyMethod(R) ==
    IF ~R.hasParties \/ ~R.hasThemes THEN ErrorResp(400, MsgInvalid)
    ELSE IF ~R.apiKey THEN ErrorResp(500, MsgNoKey)
    ELSE NoResp

\* Lines 32-45: the response of the early returns (method check, validation,
\* configuration check, in this order), or NoResp when the request passes.
EarlyResponse(R) ==
    IF R.method # "POST" THEN ErrorResp(405, MsgMethod)
    ELSE IF ~R.hasParties \/ ~R.hasThemes THEN ErrorResp(400, MsgInvalid)
    ELSE IF ~R.apiKey THEN ErrorResp(500, MsgNoKey)
    ELSE NoResp

\* Lines 32-50: method check, validation, configuration check, kv.get issued.
Receive(r, R, max) ==
    /\ pc[r] \in {"idle", "done", "threw"}
    /\ started < max
    /\ WellFormed(R)
    /\ started' = started + 1
    /\ req' = [req EXCEPT ![r] = R]
    /\ prior' = [prior EXCEPT ![r] = {f \in fresh : f.rq = R}]
    /\ scraped' = [scraped EXCEPT ![r] = <<>>]
    /\ sumP' = [sumP EXCEPT ![r] = NoPromise]
    /\ freeP' = [freeP EXCEPT ![r] = NoPromise]
    /\ result' = [result EXCEPT ![r] = NoData]
    /\ hit' = [hit EXCEPT ![r] = NoHit]
    /\ LET early == EarlyResponse(R)
       IN  /\ resp' = [resp EXCEPT ![r] = early]
           /\ pc' = [pc EXCEPT ![r] = IF early.status = 0 THEN "lookup" ELSE "done"]
           /\ calls' = [calls EXCEPT ![r] =
                           [NoCalls EXCEPT !.serial = started + 1,
                                           !.get = IF early.status = 0 THEN 1 ELSE 0]]
    /\ UNCHANGED <<cache, fresh, kvars, pvars, cvars, lvars>>

\* Lines 63-74, run when every scrape has settled: partition, guard, and the
\* two AI calls started.  c is the invocation's call record so far.
AfterExtraction(r, texts, c) ==
    LET sp == ScrapedPolicies(req[r].parties, texts)
        successfulScrapes == SuccessfulScrapes(sp)
        q == req[r].freeformQuestion
    IN  /\ scraped' = [scraped EXCEPT ![r] = texts]
        /\ IF successfulScrapes = <<>>
           THEN /\ resp' = [resp EXCEPT ![r] = ErrorResp(500, MsgNoSource)]
                /\ pc' = [pc EXCEPT ![r] = "done"]
                /\ calls' = [calls EXCEPT ![r] = c]
                /\ UNCHANGED <<sumP, freeP>>
           ELSE /\ sumP' = [sumP EXCEPT ![r] = PendingPromise]
                /\ freeP' = [freeP EXCEPT ![r] =
                                IF Truthy(q) THEN PendingPromise ELSE ResolvedUndefined]
                /\ calls' = [calls EXCEPT ![r] =
                                [c EXCEPT !.sum = 1,
                                          !.free = IF Truthy(q) THEN 1 ELSE 0,
                                          !.aiInput = successfulScrapes]]
                /\ pc' = [pc EXCEPT ![r] = "summarizing"]
                /\ UNCHANGED resp

\* Lines 50-61: kv.get settles.  A hit is answered from the cache; on a miss
\* every party's scrape is started.
LookupReturn(r) ==
    /\ pc[r] = "lookup"
    /\ \/ \* kv.get rejects: caught at line 90
          /\ hit' = [hit EXCEPT ![r] = [NoHit EXCEPT !.failed = TRUE]]
          /\ resp' = [resp EXCEPT ![r] = ErrorResp(500, MsgStore)]
          /\ pc' = [pc EXCEPT ![r] = "done"]
          /\ UNCHANGED <<scraped, sumP, freeP, calls>>
       \/ \* cache hit
          \E e \in KvGet(KeyOf(req[r])) :
             /\ hit' = [hit EXCEPT ![r] =
                           [found |-> TRUE, failed |-> FALSE, v |-> e.v, by |-> e.by]]
             /\ resp' = [resp EXCEPT ![r] = OkResp(e.v, TRUE)]
             /\ pc' = [pc EXCEPT ![r] = "done"]
             /\ UNCHANGED <<scraped, sumP, freeP, calls>>
       \/ \* cache miss
          /\ KvGet(KeyOf(req[r])) = {}
          /\ hit' = [hit EXCEPT ![r] = NoHit]
          /\ LET ps == req[r].parties
                 texts == [i \in 1..Len(ps) |-> ScrapeStart(ps[i])]
                 c == [calls[r] EXCEPT !.fetch =
                          [i \in 1..Len(ps) |-> IF texts[i] = Pending THEN 1 ELSE 0]]
             IN  IF ~AllSettled(texts)
                 THEN /\ scraped' = [scraped EXCEPT ![r] = texts]
                      /\ calls' = [calls EXCEPT ![r] = c]
                      /\ pc' = [pc EXCEPT ![r] = "extracting"]
                      /\ UNCHANGED <<sumP, freeP, resp>>
                 ELSE AfterExtraction(r, texts, c)
    /\ UNCHANGED <<cache, req, result, started, prior, fresh, kvars, pvars, cvars, lvars>>

\* Lines 103-114: the fetch of party i settles; after the last one the
\* handler resumes at line 63.
FetchReturn(r, i, t) ==
    /\ pc[r] = "extracting"
    /\ i \in 1..Len(scraped[r])
    /\ scraped[r][i] = Pending
    /\ LET texts == SetText(scraped[r], i, t)
       IN  IF ~AllSettled(texts)
           THEN /\ scraped' = [scraped EXCEPT ![r] = texts]
                /\ UNCHANGED <<sumP, freeP, resp, calls, pc>>
           ELSE AfterExtraction(r, texts, calls[r])
    /\ UNCHANGED <<cache, req, result, hit, started, prior, fresh, kvars, pvars, cvars, lvars>>

\* A handler that goes on as soon as the summarizer has answered.
AfterAISummarizerOnly(r, sp, fp, rejectedNow) ==
    IF rejectedNow.state = "rejected"
    THEN /\ resp' = [resp EXCEPT ![r] = ErrorResp(500, rejectedNow.msg)]
         /\ pc' = [pc EXCEPT ![r] = "done"]
         /\ UNCHANGED <<result, calls>>
    ELSE IF sp.state = "fulfilled"
    THEN LET failedScrapes ==
                 FailedScrapes(ScrapedPolicies(req[r].parties, scraped[r]))
             analysis == MergeFailed(sp.value, failedScrapes, req[r].themes)
         IN  /\ result' = [result EXCEPT ![r] =
                              [analysis |-> analysis,
                               freeformAnswer |-> IF fp.state = "fulfilled"
                                                  THEN fp.value ELSE NoAnswer]]
             /\ calls' = [calls EXCEPT ![r].set = 1]
             /\ pc' = [pc EXCEPT ![r] = "writing"]
             /\ UNCHANGED resp
    ELSE UNCHANGED <<result, calls, pc, resp>>

\* Lines 71-85, run when one of the two AI promises settles while the handler
\* awaits Promise.all: a rejection is caught at line 90; once both are
\* fulfilled the placeholders are merged and kv.set is issued.
AfterAI(r, sp, fp, rejectedNow) ==
    IF rejectedNow.state = "rejected"
    THEN /\ resp' = [resp EXCEPT ![r] = ErrorResp(500, rejectedNow.msg)]
         /\ pc' = [pc EXCEPT ![r] = "done"]
         /\ UNCHANGED <<result, calls>>
    ELSE IF sp.state = "fulfilled" /\ fp.state = "fulfilled"
    THEN LET failedScrapes ==
                 FailedScrapes(ScrapedPolicies(req[r].parties, scraped[r]))
             analysis == MergeFailed(sp.value, failedScrapes, req[r].themes)
         IN  /\ result' = [result EXCEPT ![r] =
                              [analysis |-> analysis, freeformAnswer |-> fp.value]]
             /\ calls' = [calls EXCEPT ![r].set = 1]
             /\ pc' = [pc EXCEPT ![r] = "writing"]
             /\ UNCHANGED resp
    ELSE UNCHANGED <<result, calls, pc, resp>>

Settled == [state |-> "settled"]

\* Lines 135-141: the summarizer's model call settles.
SummarizerReturn(r, out) ==
    /\ sumP[r].state = "pending"
    /\ IF pc[r] = "summarizing"
       THEN /\ sumP' = [sumP EXCEPT ![r] = out]
            /\ AfterAI(r, out, freeP[r], out)
       ELSE /\ sumP' = [sumP EXCEPT ![r] = Settled]
            /\ UNCHANGED <<result, calls, pc, resp>>
    /\ UNCHANGED <<cache, req, scraped, freeP, hit, started, prior, fresh, kvars, pvars, cvars, lvars>>

\* Lines 161-170: the free-answer model call settles.
FreeAnswerReturn(r, out) ==
    /\ freeP[r].state = "pending"
    /\ IF pc[r] = "summarizing"
       THEN /\ freeP' = [freeP EXCEPT ![r] = out]
            /\ AfterAI(r, sumP[r], out, out)
       ELSE /\ freeP' = [freeP EXCEPT ![r] = Settled]
            /\ UNCHANGED <<result, calls, pc, resp>>
    /\ UNCHANGED <<cache, req, scraped, sumP, hit, started, prior, fresh, kvars, pvars, cvars, lvars>>

\* Line 85: the store applies the write.
KvSetApply(r) ==
    /\ pc[r] = "writing"
    /\ cache' = KvSet(KeyOf(req[r]), result[r], Ttl, calls[r].serial)
    /\ pc' = [pc EXCEPT ![r] = "written"]
    /\ UNCHANGED <<req, scraped, sumP, freeP, result, resp, calls, hit, started,
                   prior, fresh, kvars, pvars, cvars, lvars>>

\* Line 85: kv.set rejects; caught at line 90.
KvSetFail(r) ==
    /\ pc[r] = "writing"
    /\ resp' = [resp EXCEPT ![r] = ErrorResp(500, MsgStore)]
    /\ pc' = [pc EXCEPT ![r] = "done"]
    /\ UNCHANGED <<cache, req, scraped, sumP, freeP, result, calls, hit, started,
                   prior, fresh, kvars, pvars, cvars, lvars>>

\* Lines 86-88: kv.set has resolved; the fresh result is sent.
SetReturn(r) ==
    /\ pc[r] = "written"
    /\ resp' = [resp EXCEPT ![r] = OkResp(result[r], FALSE)]
    /\ pc' = [pc EXCEPT ![r] = "done"]
    /\ fresh' = fresh \cup
           {[rq |-> req[r], body |-> result[r], serial |-> calls[r].serial]}
    /\ UNCHANGED <<cache, req, scraped, sumP, freeP, result, calls, hit, started,
                   prior, kvars, pvars, cvars, lvars>>

\* The store drops an entry whose time-to-live has run out.  An entry lives
\* for 86400 s, so it outlives a kv.set round trip: while an invocation waits
\* for its kv.set to return, the entry under its key (its own, or one written
\* over it since) is younger than that round trip.
Expire(e) ==
    /\ e \in cache
    /\ \A r \in Slots : ~(pc[r] = "written" /\ KeyOf(req[r]) = e.k)
    /\ cache' = cache \ {e}
    /\ fresh' = {f \in fresh : KeyOf(f.rq) # e.k}
    /\ prior' = [r \in Slots |-> {f \in prior[r] : KeyOf(f.rq) # e.k}]
    /\ UNCHANGED <<pc, req, scraped, sumP, freeP, result, resp, calls, hit,
                   started, kvars, pvars, cvars, lvars>>

Handle(r, U, max) ==
    \/ \E R \in U : Receive(r, R, max)
    \/ LookupReturn(r)
    \/ \E i \in 1..MaxParties, t \in FetchResults : FetchReturn(r, i, t)
    \/ \E out \in SumOutcomes(calls[r].aiInput, req[r].themes) : SummarizerReturn(r, out)
    \/ \E out \in FreeOutcomes(req[r].freeformQuestion) : FreeAnswerReturn(r, out)
    \/ KvSetApply(r)
    \/ KvSetFail(r)
    \/ SetReturn(r)

\* One invocation at a time, any request.
Next ==
    \/ Handle(1, Requests, MaxRequests)
    \/ \E e \in cache : Expire(e)

Spec == Init /\ [][Next]_vars

MaxConcRequests == 3

\* Requests of concurrent invocations: valid, one party with a URL, two themes,
\* with or without a question.
ConcRequests ==
    {R \in Requests :
        /\ R.method = "POST" /\ R.hasParties /\ R.hasThemes /\ R.apiKey
        /\ R.parties = <<[id |-> 1, policyUrl |-> <<97>>]>>
        /\ R.themes # <<>>}

\* Two invocations running concurrently.
NextConc ==
    \/ \E r \in Slots : Handle(r, ConcRequests, MaxConcRequests)
    \/ \E e \in cache : Expire(e)

SpecConc == Init /\ [][NextConc]_vars

-----------------------------------------------------------------------------
(* The cache key as a function of the request *)

MaxKeyParties == 2

\* Missing, empty, "a", "b", "a|b".
KeyUrls == {Undefined, EmptyStr, <<97>>, <<98>>, <<97, 124, 98>>}

\* Omitted, "", "q", ":".
KeyQuestions == {Undefined, EmptyStr, <<113>>, <<58>>}

KeyPartyLists ==
    UNION {{[i \in 1..n |-> [id |-> f[i], policyUrl |-> f[i]]] :
               f \in [1..n -> KeyUrls]} : n \in 0..MaxKeyParties}

KeyRequests ==
    {[method |-> "POST", hasParties |-> TRUE, parties |-> ps, hasThemes |-> TRUE,
      themes |-> <<>>, freeformQuestion |-> q, apiKey |-> TRUE] :
        ps \in KeyPartyLists, q \in KeyQuestions}

InitKey ==
    /\ InitHandler
    /\ ka \in KeyRequests
    /\ kb \in KeyRequests
    /\ kkeys = <<>>
    /\ InitProxy
    /\ InitClient
    /\ InitLatest

\* Line 49 applied to both requests.
ComputeKeys ==
    /\ kkeys = <<>>
    /\ kkeys' = <<CacheKey(ka.parties, ka.freeformQuestion),
                  CacheKey(kb.parties, kb.freeformQuestion)>>
    /\ UNCHANGED <<ka, kb, hvars, pvars, cvars, lvars>>

NextKey == ComputeKeys

SpecKey == InitKey /\ [][NextKey]_vars

\* The handlers of part_001 on their own.
SpecProxy == Init /\ [][NextProxy]_vars

\* The one-button client on its own.
SpecClient == Init /\ [][NextClient]_vars

\* The latest client on its own.
SpecLatest == Init /\ [][NextLatest]_vars

\* Line 85 over a connection that fails after the store has applied the
\* write: kv.set rejects, which is caught at line 90, and the entry is there.
KvSetLost(r) ==
    /\ pc[r] = "writing"
    /\ cache' = KvSet(KeyOf(req[r]), result[r], Ttl, calls[r].serial)
    /\ resp' = [resp EXCEPT ![r] = ErrorResp(500, MsgStore)]
    /\ pc' = [pc EXCEPT ![r] = "done"]
    /\ UNCHANGED <<req, scraped, sumP, freeP, result, calls, hit, started,
                   prior, fresh, kvars, pvars, cvars, lvars>>

\* One invocation at a time, the acknowledgement of a write possibly lost.
NextLossy ==
    \/ Next
    \/ KvSetLost(1)

SpecLossy == Init /\ [][NextLossy]_vars

\* Lines 32-38 for a POST without a body: req.body is undefined, and the
\* destructuring of line 38, which is before the try block of line 47, throws
\* a TypeError.  The handler's promise rejects and the handler has sent no
\* response.
ReceiveNoBody(r, max) ==
    /\ pc[r] \in {"idle", "done", "threw"}
    /\ started < max
    /\ started' = started + 1
    /\ \E ak \in BOOLEAN :
          req' = [req EXCEPT ![r] = [NoRequest EXCEPT !.method = "POST", !.apiKey = ak]]
    /\ prior' = [prior EXCEPT ![r] = {}]
    /\ scraped' = [scraped EXCEPT ![r] = <<>>]
    /\ sumP' = [sumP EXCEPT ![r] = NoPromise]
    /\ freeP' = [freeP EXCEPT ![r] = NoPromise]
    /\ result' = [result EXCEPT ![r] = NoData]
    /\ hit' = [hit EXCEPT ![r] = NoHit]
    /\ resp' = [resp EXCEPT ![r] = NoResp]
    /\ pc' = [pc EXCEPT ![r] = "threw"]
    /\ calls' = [calls EXCEPT ![r] = [NoCalls EXCEPT !.serial = started + 1]]
    /\ UNCHANGED <<cache, fresh, kvars, pvars, cvars, lvars>>

\* One invocation at a time, requests without a body among them.
NextNoBody ==
    \/ Next
    \/ ReceiveNoBody(1, MaxRequests)

SpecNoBody == Init /\ [][NextNoBody]_vars

\* Two valid requests whose keys are the same text "a::::q": source "a" with
\* the question "::q", and source "a::" with the question "q".
CollidingRequests ==
    {[method |-> "POST", hasParties |-> TRUE,
      parties |-> <<[id |-> 1, policyUrl |-> u]>>, hasThemes |-> TRUE,
      themes |-> <<Theme("economic"), Theme("childcare")>>,
      freeformQuestion |-> q, apiKey |-> TRUE] :
        <<u, q>> \in {<< <<97>>, <<58, 58, 113>> >>, << <<97, 58, 58>>, <<113>> >>}}

\* One invocation at a time, over these two requests.
NextCollide ==
    \/ Handle(1, CollidingRequests, MaxRequests)
    \/ \E e \in cache : Expire(e)

SpecCollide == Init /\ [][NextCollide]_vars

-----------------------------------------------------------------------------
(* Properties of the handler *)

Fresh200(r) == pc[r] = "done" /\ resp[r].status = 200 /\ ~resp[r].fromCache

\* Party i of invocation r has a URL and its fetch failed.
FetchFailed(r, i) ==
    /\ i \in 1..Len(scraped[r])
    /\ Truthy(req[r].parties[i].policyUrl)
    /\ scraped[r][i] = FailText

\* Party i of invocation r has no source.
NoSource(r, i) == i \in 1..Len(req[r].parties) /\ ~Truthy(req[r].parties[i].policyUrl)

\* m maps every requested theme key to the sentinel and has no other key.
IsPlaceholder(m, themes) ==
    /\ DOMAIN m = {themes[j].key : j \in 1..Len(themes)}
    /\ \A k \in DOMAIN m : m[k] = "JOHO_SHUTOKU_SHIPPAI"

HasPlaceholder(r, i) ==
    LET id == req[r].parties[i].id
    IN  /\ id \in DOMAIN resp[r].analysis
        /\ IsPlaceholder(resp[r].analysis[id], req[r].themes)

\* C1: in a fresh 200 response every party whose URL fetch failed has an
\* analysis entry that maps every requested theme key to the failure sentinel
\* and has no other key.
C1_FailedFetchGetsSentinel ==
    \A r \in Slots : Fresh200(r) =>
        \A i \in 1..Len(req[r].parties) : FetchFailed(r, i) => HasPlaceholder(r, i)

\* A fresh 200 response with themes where one party's fetch failed and another
\* party's succeeded, the model having answered for every id.
C1_Witness ==
    \E r \in Slots :
        /\ Fresh200(r)
        /\ req[r].themes # <<>>
        /\ \E i, j \in 1..Len(req[r].parties) :
              /\ FetchFailed(r, i)
              /\ scraped[r][j] = <<84>>
        /\ sumP[r].state = "fulfilled" /\ DOMAIN sumP[r].value = AllIds

\* The invocation has got past the extraction of a cache miss.
Extracted(r) ==
    /\ pc[r] \in {"summarizing", "writing", "written", "done"}
    /\ calls[r].get = 1 /\ ~hit[r].found /\ ~hit[r].failed
    /\ \A i \in 1..Len(scraped[r]) : scraped[r][i] # Pending
    /\ Len(scraped[r]) = Len(req[r].parties)

PassedToAI(r, i) ==
    \E j \in 1..Len(calls[r].aiInput) : calls[r].aiInput[j].id = req[r].parties[i].id

\* C2: a party without a source is never passed to the AI calls, and in a
\* fresh 200 response its entry is the failure placeholder.
C2_NoSourceIsFailure ==
    \A r \in Slots : \A i \in 1..Len(req[r].parties) :
        NoSource(r, i) =>
            /\ ~PassedToAI(r, i)
            /\ Fresh200(r) => HasPlaceholder(r, i)

\* C3: when every party's extraction failed (failed fetch or no source), the
\* request is answered 500 without any AI call and without a cache write.
C3_AllFailedIs500 ==
    \A r \in Slots :
        (/\ Extracted(r)
         /\ \A i \in 1..Len(req[r].parties) : FetchFailed(r, i) \/ NoSource(r, i))
        => /\ pc[r] = "done" /\ resp[r].status = 500
           /\ calls[r].sum = 0 /\ calls[r].free = 0 /\ calls[r].set = 0

NoFetch(r) == \A i \in 1..Len(calls[r].fetch) : calls[r].fetch[i] = 0

\* C4: a 200 response has fromCache = true exactly when kv.get returned an
\* entry, and then it carries that entry's analysis and freeformAnswer, and
\* the invocation made no fetch, no AI call and no cache write.
C4_FromCacheIffHit ==
    \A r \in Slots : (pc[r] = "done" /\ resp[r].status = 200) =>
        /\ resp[r].fromCache <=> hit[r].found
        /\ resp[r].fromCache =>
              /\ resp[r].analysis = hit[r].v.analysis
              /\ resp[r].freeformAnswer = hit[r].v.freeformAnswer
              /\ NoFetch(r)
              /\ calls[r].sum = 0 /\ calls[r].free = 0 /\ calls[r].set = 0

\* A request served from a cache entry that holds a placeholder and an answer.
C4_Witness ==
    \E r \in Slots :
        /\ pc[r] = "done" /\ resp[r].status = 200 /\ resp[r].fromCache
        /\ hit[r].found
        /\ resp[r].freeformAnswer.present
        /\ \E id \in DOMAIN resp[r].analysis :
              IsPlaceholder(resp[r].analysis[id], req[r].themes)
        /\ req[r].themes # <<>>

\* The invocation got an answer from kv.get, and identical requests were
\* answered fresh before it arrived, their key not having expired since.
Repeat(r) == pc[r] = "done" /\ prior[r] # {} /\ ~hit[r].failed

\* C5 as stated: a later identical request is served from the cache with the
\* very analysis and freeformAnswer of the first response.
C5_RepeatEqualsFirst ==
    \A r \in Slots : Repeat(r) =>
        /\ resp[r].status = 200 /\ resp[r].fromCache
        /\ \A f \in prior[r] :
              /\ resp[r].analysis = f.body.analysis
              /\ resp[r].freeformAnswer = f.body.freeformAnswer

\* C5 amended: a later identical request is served from the cache, with the
\* first response's analysis and freeformAnswer whenever the entry found is
\* the one the first request wrote; and a fresh answer is sent only after its
\* write was applied.
C5_RepeatServedFromCache ==
    \A r \in Slots :
        /\ Repeat(r) =>
              /\ resp[r].status = 200 /\ resp[r].fromCache
              /\ \A f \in prior[r] : hit[r].by = f.serial =>
                    /\ resp[r].analysis = f.body.analysis
                    /\ resp[r].freeformAnswer = f.body.freeformAnswer
        /\ \A f \in fresh : \E e \in cache : e.k = KeyOf(f.rq)

\* A repeat served from the entry the first request wrote.
C5_Witness ==
    \E r \in Slots :
        /\ Repeat(r)
        /\ resp[r].status = 200 /\ resp[r].fromCache
        /\ \E f \in prior[r] : hit[r].by = f.serial /\ f.body.analysis # <<>>

\* C10 as stated: when the summarizer succeeded and the free-answer call
\* failed, the request is answered 200 with freeformAnswer omitted.
C10_FreeAnswerFailureDegrades ==
    \A r \in Slots :
        (pc[r] = "done" /\ sumP[r].state = "fulfilled" /\ freeP[r].state = "rejected")
        => /\ resp[r].status = 200
           /\ ~resp[r].freeformAnswer.present

\* C11 as stated: a request whose cache lookup failed is not answered with the
\* error of that failure (it goes on as on a cache miss).
C11_LookupFailureIsMiss ==
    \A r \in Slots : (pc[r] = "done" /\ hit[r].failed) =>
        ~(resp[r].status = 500 /\ resp[r].error = MsgStore)

\* C12 as stated: once extraction and summarization have succeeded and the
\* cache write was issued, the request is answered 200 with the computed
\* analysis and freeformAnswer and fromCache = false, also when the write fails.
C12_WriteFailureIsDropped ==
    \A r \in Slots : (pc[r] = "done" /\ calls[r].set = 1) =>
        /\ resp[r].status = 200
        /\ ~resp[r].fromCache
        /\ resp[r].analysis = result[r].analysis
        /\ resp[r].freeformAnswer = result[r].freeformAnswer

\* The summarizer's promise was rejected while the handler awaited it.
SummarizerFailed(r) == sumP[r].state = "rejected"

\* The failure is answered 500 without analysis and nothing was written.
FailedWithoutWrite(r) ==
    /\ pc[r] = "done" /\ resp[r].status = 500
    /\ "analysis" \notin DOMAIN resp[r]
    /\ calls[r].set = 0
    /\ \A e \in cache : e.by # calls[r].serial

NoDownstreamCall(r) ==
    /\ calls[r].get = 0 /\ calls[r].set = 0
    /\ NoFetch(r)
    /\ calls[r].sum = 0 /\ calls[r].free = 0

\* C14 as stated: a POST request with an empty parties list (themes supplied
\* and the credential configured) is answered 400 and makes no downstream
\* call.
C14_EmptyPartiesIs400 ==
    \A r \in Slots :
        (/\ pc[r] # "idle"
         /\ req[r].method = "POST" /\ req[r].hasParties /\ req[r].parties = <<>>
         /\ req[r].hasThemes /\ req[r].apiKey)
        => /\ pc[r] = "done" /\ resp[r].status = 400
           /\ NoDownstreamCall(r)

\* The request of invocation r names a party with a URL, and an answer is
\* stored under its key.
AnswerStored(r) ==
    /\ \E i \in 1..Len(req[r].parties) : Truthy(req[r].parties[i].policyUrl)
    /\ \E e \in cache : e.k = KeyOf(req[r])

\* C15: a POST request with parties and themes but without the model
\* credential is answered 500 at once: at no time does its invocation look up
\* the cache, fetch a source or call the model.
C15_NoCredentialIs500 ==
    \A r \in Slots :
        (/\ pc[r] # "idle"
         /\ req[r].method = "POST" /\ req[r].hasParties /\ req[r].hasThemes
         /\ ~req[r].apiKey)
        => /\ pc[r] = "done" /\ resp[r] = ErrorResp(500, MsgNoKey)
           /\ NoDownstreamCall(r)

\* Such a request answered 500 although its answer is in the cache.
C15_Witness ==
    \E r \in Slots :
        /\ pc[r] = "done"
        /\ req[r].method = "POST" /\ req[r].hasParties /\ req[r].hasThemes
        /\ ~req[r].apiKey
        /\ AnswerStored(r)
        /\ resp[r].status = 500

\* C16: a POST request without `parties` or without `themes` is answered 400,
\* with or without the credential, and makes no downstream call.
C16_MissingFieldIs400 ==
    \A r \in Slots :
        (/\ pc[r] # "idle"
         /\ req[r].method = "POST"
         /\ ~req[r].hasParties \/ ~req[r].hasThemes)
        => /\ pc[r] = "done" /\ resp[r] = ErrorResp(400, MsgInvalid)
           /\ NoDownstreamCall(r)

\* A request with parties, without themes and without the credential,
\* answered 400.
C16_Witness ==
    \E r \in Slots :
        /\ pc[r] = "done"
        /\ req[r].method = "POST"
        /\ req[r].hasParties /\ req[r].parties # <<>> /\ ~req[r].hasThemes
        /\ ~req[r].apiKey
        /\ resp[r].status = 400

\* C17: a request whose method is not POST is answered 405 whatever its body
\* and the configuration, and makes no downstream call.
C17_NotPostIs405 ==
    \A r \in Slots :
        (pc[r] # "idle" /\ req[r].method # "POST")
        => /\ pc[r] = "done" /\ resp[r] = ErrorResp(405, MsgMethod)
           /\ NoDownstreamCall(r)

\* A GET request with a valid body and the credential, whose answer is in the
\* cache, answered 405.
C17_Witness ==
    \E r \in Slots :
        /\ pc[r] = "done"
        /\ req[r].method = "GET"
        /\ req[r].hasParties /\ req[r].hasThemes /\ req[r].apiKey
        /\ AnswerStored(r)
        /\ resp[r].status = 405

\* An error body goes with a non-2xx status only (and so a 2xx response
\* carries no error field).
ErrorIffNot2xx(response) == "error" \in DOMAIN response => ~Ok(response.status)

\* C18 as stated: in every handler variant a body {error} is sent with a
\* non-2xx status and a 2xx response carries no error field, also when the
\* model call returns a success status without candidates.
C18_ErrorBodyNever2xx ==
    /\ \A r \in Slots : ErrorIffNot2xx(resp[r])
    /\ ErrorIffNot2xx(presp)

\* The request of invocation r has an empty themes list.
NoThemes(r) == pc[r] # "idle" /\ req[r].hasThemes /\ req[r].themes = <<>>

\* The page of some party of invocation r was fetched and its text is not
\* empty.
SomePageRead(r) ==
    \E i \in 1..Len(scraped[r]) :
        Truthy(req[r].parties[i].policyUrl) /\ scraped[r][i] = <<84>>

\* C19 as stated, for the requests that got a fresh answer: a cache-miss
\* request with no themes and a question, of which an extraction succeeded
\* and the free-answer call succeeded, is answered with the empty analysis (no
\* party key at all) and with freeformAnswer populated.
C19_NoThemesGivesEmptyAnalysis ==
    \A r \in Slots :
        (/\ Fresh200(r) /\ Extracted(r)
         /\ NoThemes(r) /\ Truthy(req[r].freeformQuestion)
         /\ SomePageRead(r)
         /\ freeP[r].state = "fulfilled")
        => /\ resp[r].analysis = <<>>
           /\ resp[r].freeformAnswer.present

\* C20 as stated: with an empty themes list the summarizer makes no model
\* call and yields the empty mapping.
C20_NoThemesNoModelCall ==
    \A r \in Slots : NoThemes(r) =>
        /\ calls[r].sum = 0
        /\ sumP[r].state = "fulfilled" => sumP[r].value = <<>>

\* The invocation reached the AI step (line 71).
ReachedAI(r) == calls[r].sum = 1

\* C21 as stated: a fresh 200 response has freeformAnswer only if the question
\* is non-empty and the page of some party was read; the free-answer call is
\* never made without a question, and is made whenever the AI step is
\* reached with one.
C21_FreeAnswerOnlyIfAsked ==
    \A r \in Slots :
        /\ (Fresh200(r) /\ resp[r].freeformAnswer.present) =>
              Truthy(req[r].freeformQuestion) /\ SomePageRead(r)
        /\ calls[r].free = 1 => Truthy(req[r].freeformQuestion)
        /\ ReachedAI(r) => (calls[r].free = 1 <=> Truthy(req[r].freeformQuestion))

\* C22 as stated, for the raw-text handler of part_001: the policy text handed
\* to the model call is at most 15,000 characters long, and a text shorter
\* than the cap is handed over unchanged.
C22_TextCapped ==
    (ppc # "idle" /\ preq.handler = "analysis") =>
        /\ pinput.len <= MaxChars
        /\ (ppc = "calling" /\ preq.request.policyText.len < MaxChars) =>
              pinput = preq.request.policyText

\* C23: every entry of the cache was stored with a time-to-live of 86400
\* seconds.
C23_EveryEntryExpiresInADay == \A e \in cache : e.ex = 86400

\* Two entries in the cache, one of them holding a free answer.
C23_Witness ==
    \E e1, e2 \in cache : e1.k # e2.k /\ e1.v.freeformAnswer.present

\* Invocation r has written its result under its key.
Wrote(r) == pc[r] = "written" \/ Fresh200(r)

\* The entry is, whole, the result that the invocation numbered e.by merged
\* and wrote under its key.
WholeResultOfOne(e) ==
    \/ \E r \in Slots :
          /\ calls[r].serial = e.by /\ Wrote(r)
          /\ e.k = KeyOf(req[r]) /\ e.v = result[r]
    \/ \E f \in fresh : f.serial = e.by /\ e.k = KeyOf(f.rq) /\ e.v = f.body

\* Under a key there is no entry or one entry, and it is the whole result of
\* one request.
EntriesAreWhole ==
    /\ \A e1, e2 \in cache : e1.k = e2.k => e1 = e2
    /\ \A e \in cache : WholeResultOfOne(e)

\* Two invocations run at the same time on the same key, both missed and both
\* wrote.
BothWrote ==
    /\ Wrote(1) /\ Wrote(2)
    /\ KeyOf(req[1]) = KeyOf(req[2])
    /\ ~hit[1].found /\ ~hit[2].found

\* C24 as stated: the entry under a key is at all times absent or the whole
\* merged result of exactly one request, and of two concurrent requests on the
\* same key that both write, the later write stores a value equal to the
\* earlier one.
C24_ConcurrentWritesEquivalent ==
    /\ EntriesAreWhole
    /\ BothWrote => result[1] = result[2]

\* C24 amended: the entry under a key is at all times absent or the whole
\* merged result of exactly one request; when two concurrent requests on the
\* same key both write, the entry left is the result of one of the two.
C24_ConcurrentWritesWhole ==
    /\ EntriesAreWhole
    /\ BothWrote =>
          \A e \in cache : e.k = KeyOf(req[1]) => e.v \in {result[1], result[2]}

\* Both wrote under the same key, with different analyses, and the entry is
\* there.
C24_Witness ==
    /\ BothWrote
    /\ result[1].analysis # result[2].analysis
    /\ \E e \in cache : e.k = KeyOf(req[1])

\* Ids of the parties of invocation r whose text begins with the failure
\* marker.
FailedIds(r) == Ids(FailedScrapes(ScrapedPolicies(req[r].parties, scraped[r])))

\* A fresh 200 response whose analysis was merged from the summarizer's output.
Merged(r) == Fresh200(r) /\ sumP[r].state = "fulfilled"

\* Under every id outside the failed set the response has what the model
\* returned, and nothing where the model returned nothing.
AiOutputKept(r) ==
    \A id \in (DOMAIN sumP[r].value \cup DOMAIN resp[r].analysis) \ FailedIds(r) :
        /\ id \in DOMAIN sumP[r].value /\ id \in DOMAIN resp[r].analysis
        /\ resp[r].analysis[id] = sumP[r].value[id]

C26_AnalysisKeysAreRequestIds ==
    \A r \in Slots :
        /\ sumP[r].state = "fulfilled" =>
              DOMAIN sumP[r].value \subseteq Ids(calls[r].aiInput)
        /\ Fresh200(r) => DOMAIN resp[r].analysis \subseteq Ids(req[r].parties)

\* No party of invocation r is in successfulScrapes, given the texts.
NoneSuccessful(r, texts) ==
    SuccessfulScrapes(ScrapedPolicies(req[r].parties, texts)) = <<>>

\* A step of an invocation that awaits its extractions leaves the outcome of
\* every party that has one as it is, and ends the request only when every
\* party has an outcome and none is successful.
ExtractionStepIsolated(r) ==
    pc[r] = "extracting" =>
        /\ Len(scraped'[r]) = Len(scraped[r])
        /\ \A j \in 1..Len(scraped[r]) :
              scraped[r][j] # Pending => scraped'[r][j] = scraped[r][j]
        /\ pc'[r] = "done" =>
              /\ AllSettled(scraped'[r])
              /\ NoneSuccessful(r, scraped'[r])

\* C27: the extraction of a party settles with a text (a failure becomes the
\* failure text, never an error of the request), it changes no sibling's
\* outcome, and the request fails at this stage only if no party succeeded.
C27_ExtractionIsolated == [][\A r \in Slots : ExtractionStepIsolated(r)]_vars

\* A request answered 200 in which the fetch of one party failed and the page
\* of another was read.
C27_Witness ==
    \E r \in Slots :
        /\ Fresh200(r)
        /\ \E i, j \in 1..Len(req[r].parties) :
              FetchFailed(r, i) /\ scraped[r][j] = <<84>>

\* Some extraction of invocation r has not settled.
SomePending(r) == \E j \in 1..Len(scraped[r]) : scraped[r][j] = Pending

\* C28: while the handler awaits the extractions, the fetch of every party
\* with a URL has been started; and as long as one extraction has not
\* settled, the request has made no AI call and no cache write and has sent
\* no response.
C28_AllExtractionsBeforeAI ==
    \A r \in Slots :
        /\ pc[r] = "extracting" =>
              \A i \in 1..Len(req[r].parties) :
                  Truthy(req[r].parties[i].policyUrl) => calls[r].fetch[i] = 1
        /\ SomePending(r) =>
              /\ pc[r] = "extracting" /\ resp[r].status = 0
              /\ calls[r].sum = 0 /\ calls[r].free = 0 /\ calls[r].set = 0

\* The fetch of one party has failed while that of another has not settled,
\* and the request is still waiting.
C28_Witness ==
    \E r \in Slots :
        /\ SomePending(r)
        /\ \E i \in 1..Len(scraped[r]) : FetchFailed(r, i)
        /\ pc[r] = "extracting"

\* The result that lines 76-84 build from the two fulfilled promises.
ResultOf(r) ==
    [analysis |-> MergeFailed(sumP[r].value,
                              FailedScrapes(ScrapedPolicies(req[r].parties, scraped[r])),
                              req[r].themes),
     freeformAnswer |-> freeP[r].value]

\* C29: with a question, both AI calls are started together, and what the
\* request answers and writes is determined by the two outcomes, whichever
\* call completes first: nothing happens while one is outstanding and the
\* other fulfilled; a rejection gives 500 without analysis and without a
\* write; two fulfilments give the result merged from both values, which is
\* what is written and what a 200 response carries.
C29_CompletionOrderIrrelevant ==
    \A r \in Slots : (ReachedAI(r) /\ Truthy(req[r].freeformQuestion)) =>
        /\ calls[r].free = 1
        /\ sumP[r].state # "none" /\ freeP[r].state # "none"
        /\ (\/ sumP[r].state = "fulfilled" /\ freeP[r].state = "pending"
            \/ sumP[r].state = "pending" /\ freeP[r].state = "fulfilled")
           => /\ pc[r] = "summarizing" /\ resp[r].status = 0
              /\ calls[r].set = 0
        /\ (sumP[r].state = "rejected" \/ freeP[r].state = "rejected")
           => /\ pc[r] = "done" /\ resp[r].status = 500
              /\ "analysis" \notin DOMAIN resp[r]
              /\ calls[r].set = 0
        /\ (sumP[r].state = "fulfilled" /\ freeP[r].state = "fulfilled")
           => /\ result[r] = ResultOf(r)
              /\ resp[r].status = 200 => resp[r] = OkResp(ResultOf(r), FALSE)
              /\ \A e \in cache : e.by = calls[r].serial => e.v = ResultOf(r)

\* The free answer has arrived while the summarizer's call is outstanding,
\* one party having failed.
C29_Witness ==
    \E r \in Slots :
        /\ ReachedAI(r) /\ Truthy(req[r].freeformQuestion)
        /\ freeP[r].state = "fulfilled" /\ sumP[r].state = "pending"
        /\ req[r].themes # <<>>
        /\ \E i \in 1..Len(scraped[r]) : FetchFailed(r, i)

\* The invocation is on the path of a cache miss, its scrapes started.
OnMissPath(r) == pc[r] = "extracting" \/ Extracted(r)

\* C30: on a cache miss the invocation has issued exactly one GET for every
\* party with a URL, also after that GET failed, and none for a party without
\* a URL; an invocation that is not on the miss path (early return, cache hit,
\* failed lookup) has issued none.
C30_OneFetchPerParty ==
    \A r \in Slots :
        /\ OnMissPath(r) =>
              /\ Len(calls[r].fetch) = Len(req[r].parties)
              /\ \A i \in 1..Len(req[r].parties) :
                    calls[r].fetch[i] =
                        IF Truthy(req[r].parties[i].policyUrl) THEN 1 ELSE 0
        /\ ~OnMissPath(r) => NoFetch(r)

\* A cache miss with a party whose one GET failed and a party without a URL.
C30_Witness ==
    \E r \in Slots :
        /\ Extracted(r)
        /\ \E i, j \in 1..Len(req[r].parties) :
              /\ FetchFailed(r, i) /\ calls[r].fetch[i] = 1
              /\ NoSource(r, j) /\ calls[r].fetch[j] = 0

\* Party i of invocation r with the text its extraction gave.
Scraped(r, i) == ScrapedPolicies(req[r].parties, scraped[r])[i]

\* C31 as stated: after the extractions of a cache miss every party is in
\* exactly one of successfulScrapes and failedScrapes, and in a fresh 200
\* response with themes every party was either passed to the AI calls or has
\* the failure placeholder, never neither and never both.
C31_PartitionExact ==
    \A r \in Slots : Extracted(r) =>
        \A i \in 1..Len(req[r].parties) :
            /\ IsSuccessful(Scraped(r, i)) # IsFailed(Scraped(r, i))
            /\ (Fresh200(r) /\ req[r].themes # <<>>) =>
                  PassedToAI(r, i) # HasPlaceholder(r, i)

\* C32 as stated: a request served from the cache has the theme list of the
\* request that computed the entry.
C32_HitHasSameThemes ==
    \A r \in Slots : (pc[r] = "done" /\ hit[r].found) =>
        \A f \in fresh : f.serial = hit[r].by => f.rq.themes = req[r].themes

\* C33 as stated: the freeformAnswer of a 200 response, fresh or from the
\* cache, has the question of the request being answered.
C33_AnswerIsToTheQuestion ==
    \A r \in Slots :
        (pc[r] = "done" /\ resp[r].status = 200 /\ resp[r].freeformAnswer.present)
        => resp[r].freeformAnswer.question = req[r].freeformQuestion

\* C34 as stated: an entry is in the cache only by a request that answers 200
\* with fromCache = false: the invocation that wrote an entry is waiting for
\* kv.set to return or has answered 200 fresh.
C34_OnlyFresh200Writes ==
    \A r \in Slots : \A e \in cache :
        e.by = calls[r].serial => (pc[r] = "written" \/ Fresh200(r))

\* The fresh 200 answers given before invocation r arrived to requests with
\* r's key, the key not having expired since.
EarlierSameKey(r) ==
    {f \in fresh : f.serial < calls[r].serial /\ KeyOf(f.rq) = KeyOf(req[r])}

\* The ids that the fresh answer f gave the failure placeholder.
SentinelIds(f) ==
    {id \in DOMAIN f.body.analysis :
        f.rq.themes # <<>> /\ IsPlaceholder(f.body.analysis[id], f.rq.themes)}

\* Invocation r has ended after computing its key and asking the cache.
Looked(r) == pc[r] = "done" /\ calls[r].get = 1

\* Response of r carries the placeholders of the fresh answer f, from the cache.
ServesPlaceholders(r, f) ==
    /\ resp[r].status = 200 /\ resp[r].fromCache
    /\ \A id \in SentinelIds(f) :
          /\ id \in DOMAIN resp[r].analysis
          /\ resp[r].analysis[id] = f.body.analysis[id]

C36_AlwaysOneResponse ==
    \A r \in Slots :
        pc[r] \in {"done", "threw"} => resp[r].status \in {200, 400, 405, 500}

\* C37: in the one-button client loading is true exactly while an invocation
\* of analyzePolicies is suspended on its request, at most one request is in
\* flight, and a request in flight carries at least one party and only
\* parties whose URL was not blank when it was sent.
C37_LoadingWhileInFlight ==
    /\ cloading <=> cinflight # {}
    /\ Cardinality(cinflight) <= 1
    /\ \A f \in cinflight :
          /\ DOMAIN f.parties # {}
          /\ \A i \in DOMAIN f.parties : Trim(f.parties[i]) # EmptyStr

\* A request that ended by a network exception, loading reset, after an
\* earlier click that sent nothing.
C37_Witness ==
    /\ cclicks > 1
    /\ cerror = MsgNetwork
    /\ ~cloading
    /\ cinflight = {}

\* C38 as stated: in the latest client, once resetAnalysis has run and until
\* the next click on a request button, freeformAnswer is null and every
\* party's analysisResult is empty.
C38_ResetStaysCleared ==
    lreset => /\ lanswer = "null"
              /\ \A i \in ClientIds : lparties[i].analysisResult = NoResult

-----------------------------------------------------------------------------
(* Properties of the cache key *)

KeysComputed == kkeys # <<>>

Count(seq, x) == Cardinality({i \in 1..Len(seq) : seq[i] = x})

\* t is a reordering of s.
IsPermutation(s, t) ==
    /\ Len(s) = Len(t)
    /\ \A i \in 1..Len(s) : Count(s, s[i]) = Count(t, s[i])

SourcesOf(R) == [i \in 1..Len(R.parties) |-> R.parties[i].policyUrl]

SourceSet(R) == {R.parties[i].policyUrl : i \in 1..Len(R.parties)}

\* The question as line 49 reads it: an omitted question is the empty one.
QuestionText(R) == IF R.freeformQuestion = Undefined THEN <<>> ELSE R.freeformQuestion

\* C6: reordering the parties of a request does not change its cache key.
C6_KeyPermutationInvariant ==
    (/\ KeysComputed
     /\ IsPermutation(ka.parties, kb.parties)
     /\ ka.freeformQuestion = kb.freeformQuestion)
    => kkeys[1] = kkeys[2]

\* Two requests with the same parties, "b" and "a|b" among them, in different
\* orders.
C6_Witness ==
    /\ KeysComputed
    /\ IsPermutation(ka.parties, kb.parties)
    /\ ka.freeformQuestion = kb.freeformQuestion
    /\ ka.parties # kb.parties
    /\ \E i \in 1..Len(ka.parties) : ka.parties[i].policyUrl = <<98>>
    /\ \E i \in 1..Len(ka.parties) : ka.parties[i].policyUrl = <<97, 124, 98>>

IsString(q) == q # Undefined

\* C7: for the same parties, different question strings give different keys,
\* and two requests without a question have the same key.
C7_KeySeparatesQuestions ==
    (KeysComputed /\ ka.parties = kb.parties) =>
        /\ (/\ IsString(ka.freeformQuestion) /\ IsString(kb.freeformQuestion)
            /\ ka.freeformQuestion # kb.freeformQuestion)
           => kkeys[1] # kkeys[2]
        /\ (ka.freeformQuestion = Undefined /\ kb.freeformQuestion = Undefined)
           => kkeys[1] = kkeys[2]

\* Two requests over the same two parties, one asking "q" and one asking ":".
C7_Witness ==
    /\ KeysComputed
    /\ ka.parties = kb.parties /\ Len(ka.parties) = 2
    /\ ka.freeformQuestion = <<113>> /\ kb.freeformQuestion = <<58>>
    /\ kkeys[1] # kkeys[2]

AllSourcesGiven(R) == \A i \in 1..Len(R.parties) : Truthy(R.parties[i].policyUrl)

ListsOneTwice(R, S) ==
    \E i \in 1..Len(R.parties) : S.parties = Append(R.parties, R.parties[i])

C9_KeyCollisionFree ==
    (/\ KeysComputed
     /\ AllSourcesGiven(ka) /\ AllSourcesGiven(kb)
     /\ \/ JsSort(SourcesOf(ka)) # JsSort(SourcesOf(kb))
        \/ QuestionText(ka) # QuestionText(kb))
    => kkeys[1] # kkeys[2]

====
